---- MODULE Spec2Model ----
(***************************************************************************)
(* The crawl queue of spyglass (crates/entities/src/models/crawl_queue.rs) *)
(* as a state machine: the crawl_queue table, the indexed_document table,  *)
(* the callers of enqueue_all and the workers that call dequeue.           *)
(*                                                                         *)
(* Strings are sequences of tokens ("https://", "a", ".com", "/x", "#f"):  *)
(* a url is scheme \o host \o path, a host such as a.com is <<"a",".com">>.*)
(* The tokens "*" and "%" are the wildcards of a priority pattern and of   *)
(* SQL LIKE.                                                               *)
(***************************************************************************)
EXTENDS Integers, Sequences, FiniteSets, TLC

\* ------------------------------------------------------------------ bounds
\* The clock stops at MaxTime.
MaxTime == 1
\* Reports of failure a row receives in Spec and SpecEnqueue.
MaxFailedReports == 1
\* Reports of failure a row receives in SpecRetry.
MaxRetryReports == 7

\* --------------------------------------------------------------- constants
MAX_RETRIES == 5
\* Limit::value() of an unlimited limit.
UnlimitedValue == 2147483647

Queued == "Queued"
Processing == "Processing"
Completed == "Completed"
Failed == "Failed"
CrawlStatus == {Queued, Processing, Completed, Failed}

Api == "API"
Bootstrap == "Bootstrap"
Normal == "Normal"
CrawlType == {Api, Bootstrap, Normal}

\* Limit::Finite(n) and the unlimited limit.
Finite(n) == [finite |-> TRUE, n |-> n]
Unlimited == [finite |-> FALSE, n |-> 0]
LimitValue(l) == IF l.finite THEN l.n ELSE UnlimitedValue

\* ------------------------------------------------------------------ strings
Schemes == {"https://", "mailto:"}
\* Schemes whose urls have a host.
HostSchemes == {"https://"}
Fragments == {"#f"}

HostA == <<"a", ".com">>
HostB == <<"b", ".com">>

RECURSIVE Like(_, _)
\* SQL: s LIKE pat, with "%" matching any run of tokens.
Like(s, pat) ==
    IF pat = <<>> THEN s = <<>>
    ELSE IF Head(pat) = "%"
         THEN Like(s, Tail(pat)) \/ (s # <<>> /\ Like(Tail(s), pat))
         ELSE s # <<>> /\ Head(s) = Head(pat) /\ Like(Tail(s), Tail(pat))

\* str::replace('*', "%")
ReplaceStar(item) == [i \in 1..Len(item) |-> IF item[i] = "*" THEN "%" ELSE item[i]]

\* ParseUrl without set_fragment(None).
ParseUrlKeepFragment(raw) ==
    IF raw = <<>> \/ Head(raw) \notin Schemes
    THEN [ok |-> FALSE, host |-> <<>>, url |-> <<>>]
    ELSE [ok |-> TRUE,
          host |-> IF Head(raw) \in HostSchemes /\ Len(raw) >= 3
                   THEN SubSeq(raw, 2, 3) ELSE <<>>,
          url |-> raw]

\* Url::parse, set_fragment(None), host_str and to_string of one candidate:
\* ok = FALSE for a string that is no absolute url; host = <<>> for a url
\* without a host; url is the serialisation without the fragment.
ParseUrl(raw) ==
    IF raw = <<>> \/ Head(raw) \notin Schemes
    THEN [ok |-> FALSE, host |-> <<>>, url |-> <<>>]
    ELSE LET body == IF raw[Len(raw)] \in Fragments
                     THEN SubSeq(raw, 1, Len(raw) - 1) ELSE raw
         IN [ok |-> TRUE,
             host |-> IF Head(raw) \in HostSchemes /\ Len(body) >= 3
                      THEN SubSeq(body, 2, 3) ELSE <<>>,
             url |-> body]

\* ----------------------------------------------------------- admission
\* regex_for_domain(domain) matches the urls of that host.
regex_for_domain(domain, url) == Like(url, <<"https://">> \o ReplaceStar(domain) \o <<"%">>)
\* regex_for_prefix(prefix) matches the urls that start with the prefix.
regex_for_prefix(prefix, url) == Like(url, prefix \o <<"%">>)

\* AllowListIsMatch where a set of no patterns matches every url.
AllowListEmptyMatchesAll(lenses, url) ==
    \/ lenses = <<>>
    \/ \E l \in 1..Len(lenses) :
        \/ \E d \in 1..Len(lenses[l].domains) : regex_for_domain(lenses[l].domains[d], url)
        \/ \E p \in 1..Len(lenses[l].urls) : regex_for_prefix(lenses[l].urls[p], url)

\* RegexSet::is_match over the patterns of all lenses.
AllowListIsMatch(lenses, url) ==
    \E l \in 1..Len(lenses) :
        \/ \E d \in 1..Len(lenses[l].domains) : regex_for_domain(lenses[l].domains[d], url)
        \/ \E p \in 1..Len(lenses[l].urls) : regex_for_prefix(lenses[l].urls[p], url)

\* Admitted where either override skips both rules.
AdmittedSkipAll(raw, lenses, settings, overrides) ==
    LET parsed == ParseUrl(raw)
        skip == overrides.skip_blocklist \/ overrides.skip_lenses IN
    /\ parsed.ok
    /\ parsed.host # <<>>
    /\ ~(~skip /\ parsed.host \in settings.block_list)
    /\ ~(/\ ~skip
         /\ ~settings.crawl_external_links
         /\ ~AllowListIsMatch(lenses, parsed.url))

\* The closure of filter_map: TRUE when the candidate is kept.
Admitted(raw, lenses, settings, overrides) ==
    LET parsed == ParseUrl(raw) IN
    /\ parsed.ok
    /\ parsed.host # <<>>
    /\ ~(~overrides.skip_blocklist /\ parsed.host \in settings.block_list)
    /\ ~(/\ ~overrides.skip_lenses
         /\ ~settings.crawl_external_links
         /\ ~AllowListIsMatch(lenses, parsed.url))

RECURSIVE FilterUrls(_, _, _, _)
\* The normalised urls of the admitted candidates, in batch order.
FilterUrls(urls, lenses, settings, overrides) ==
    IF urls = <<>> THEN <<>>
    ELSE LET rest == FilterUrls(Tail(urls), lenses, settings, overrides) IN
         IF Admitted(Head(urls), lenses, settings, overrides)
         THEN <<ParseUrl(Head(urls)).url>> \o rest
         ELSE rest

\* host_str of a normalised url.
DomainOf(url) == ParseUrl(url).host

\* ---------------------------------------------------------------- the tables
\* A row of crawl_queue; its id is its index in the table (ids are assigned
\* in insertion order and no row is ever deleted).  created_at is written
\* once at insert and never read; it is left out.
NewRow(url, crawl_type, time) ==
    [domain |-> DomainOf(url), url |-> url, status |-> Queued, num_retries |-> 0,
     crawl_type |-> crawl_type, updated_at |-> time]

Ids(q) == 1..Len(q)
UrlsOf(q) == {q[i].url : i \in Ids(q)}

\* SELECT count(*) FROM crawl_queue WHERE status = "Processing"
NumInProgress(q) == Cardinality({i \in Ids(q) : q[i].status = Processing})

\* The CTE inflight: Processing rows of one domain.
InflightCount(q, domain) ==
    Cardinality({i \in Ids(q) : q[i].status = Processing /\ q[i].domain = domain})

\* The CTE indexed: indexed_document rows of one domain.
IndexedCount(idx, domain) == Cardinality({d \in idx : d.domain = domain})

\* ------------------------------------------------------------------ dequeue
\* gen_priority_values: the rows of p_domain / p_prefix.
gen_priority_values(items, is_prefix) ==
    IF items = <<>> THEN <<[pattern |-> <<>>, priority |-> 0]>>
    ELSE [i \in 1..Len(items) |->
            [pattern |-> IF is_prefix THEN items[i] \o <<"%">> ELSE ReplaceStar(items[i]),
             priority |-> 1]]

\* SQL NULL in an ORDER BY ... DESC column: below every value.
NullPriority == 0 - 1

\* The priorities a row is joined with by LEFT JOIN ... ON s LIKE pattern:
\* one per matching pattern, NULL when none matches.
JoinedPriorities(s, values) ==
    LET hit == {values[i].priority : i \in {j \in 1..Len(values) : Like(s, values[j].pattern)}}
    IN IF hit = {} THEN {NullPriority} ELSE hit

\* Eligible without the count of indexed documents.
EligibleNoIndexedCount(q, idx, settings, i) ==
    /\ InflightCount(q, q[i].domain) < LimitValue(settings.inflight_domain_limit)
    /\ q[i].status = Queued

\* The WHERE clause of sql/dequeue.sqlx.
Eligible(q, idx, settings, i) ==
    /\ IndexedCount(idx, q[i].domain) < LimitValue(settings.domain_crawl_limit)
    /\ InflightCount(q, q[i].domain) < LimitValue(settings.inflight_domain_limit)
    /\ q[i].status = Queued

\* The joined rows of the prioritised query that pass the WHERE clause, as
\* <<id, p_prefix.priority, p_domain.priority>>.
JoinedRows(q, idx, settings, p_domains, p_prefixes) ==
    UNION {{<<i, pp, pd>> :
                pp \in JoinedPriorities(q[i].url, gen_priority_values(p_prefixes, TRUE)),
                pd \in JoinedPriorities(q[i].domain, gen_priority_values(p_domains, FALSE))}
           : i \in {j \in Ids(q) : Eligible(q, idx, settings, j)}}

\* ORDER BY p_prefix.priority DESC, p_domain.priority DESC, cq.updated_at ASC:
\* TRUE when joined row a does not sort after joined row b.
SortsBefore(q, a, b) ==
    \/ a[2] > b[2]
    \/ a[2] = b[2] /\ a[3] > b[3]
    \/ a[2] = b[2] /\ a[3] = b[3] /\ q[a[1]].updated_at <= q[b[1]].updated_at

\* The ids the prioritised query may put first (rows that tie come in any order).
PriorityFirst(q, idx, settings, p_domains, p_prefixes) ==
    LET rows == JoinedRows(q, idx, settings, p_domains, p_prefixes)
    IN {a[1] : a \in {r \in rows : \A b \in rows : SortsBefore(q, r, b)}}

\* Model::id of "no task"
NoTask == 0

\* BootstrapQueued without the filter on the status.
BootstrapAnyStatus(q) == {i \in Ids(q) : q[i].crawl_type = Bootstrap}

\* The Queued Bootstrap rows.
BootstrapQueued(q) ==
    {i \in Ids(q) : q[i].status = Queued /\ q[i].crawl_type = Bootstrap}

\* InflightLimitHit with > for >=.
InflightLimitOffByOne(q, settings) ==
    /\ settings.inflight_crawl_limit.finite
    /\ NumInProgress(q) > settings.inflight_crawl_limit.n

\* The global inflight check of dequeue: TRUE when dequeue returns None at once.
InflightLimitHit(q, settings) ==
    /\ settings.inflight_crawl_limit.finite
    /\ NumInProgress(q) >= settings.inflight_crawl_limit.n

\* dequeue without the Bootstrap lookup.
DequeueNoBootstrap(q, idx, settings, p_domains, p_prefixes) ==
    IF InflightLimitHit(q, settings) THEN {NoTask}
    ELSE LET first == PriorityFirst(q, idx, settings, p_domains, p_prefixes)
         IN IF first = {} THEN {NoTask} ELSE first

\* dequeue: the ids it may return, NoTask for None.  A query without ORDER BY
\* (the Bootstrap lookup) returns any matching row.
dequeue(q, idx, settings, p_domains, p_prefixes) ==
    IF InflightLimitHit(q, settings) THEN {NoTask}
    ELSE IF BootstrapQueued(q) # {} THEN BootstrapQueued(q)
    ELSE LET first == PriorityFirst(q, idx, settings, p_domains, p_prefixes)
         IN IF first = {} THEN {NoTask} ELSE first

\* ------------------------------------------------------------- enqueue_all
\* IsQueued that reads only the rows still Queued.
IsQueuedOnlyQueued(q, urls) ==
    {q[i].url : i \in {j \in Ids(q) : q[j].status = Queued /\ \E k \in 1..Len(urls) : urls[k] = q[j].url}}

\* is_queued: the urls of the batch that are in crawl_queue, in any status.
IsQueued(q, urls) == {q[i].url : i \in {j \in Ids(q) : \E k \in 1..Len(urls) : urls[k] = q[j].url}}

\* is_indexed: the urls of the batch that are in indexed_document.
IsIndexed(idx, urls) == {d.url : d \in {e \in idx : \E k \in 1..Len(urls) : urls[k] = e.url}}

\* ToAdd that leaves out only the urls that are queued.
ToAddQueuedOnly(urls, is_queued, is_indexed) ==
    SelectSeq(urls, LAMBDA u : u \notin is_queued)

\* to_add: the urls left by the duplicate gate, in batch order.
ToAdd(urls, is_queued, is_indexed) ==
    SelectSeq(urls, LAMBDA u : u \notin is_queued /\ u \notin is_indexed)

\* UniqueViolation of a table without the unique index on url.
NoUniqueIndex(q, urls) == FALSE

\* The unique index on url: TRUE when inserting urls into q violates it.
UniqueViolation(q, urls) ==
    \/ \E k \in 1..Len(urls) : urls[k] \in UrlsOf(q)
    \/ \E j, k \in 1..Len(urls) : j # k /\ urls[j] = urls[k]

\* Entity::insert_many(to_add).exec: one INSERT statement, which a constraint
\* violation aborts as a whole; the error is logged and swallowed.
insert_many(q, urls, crawl_type, time) ==
    IF UniqueViolation(q, urls) THEN q
    ELSE q \o [k \in 1..Len(urls) |-> NewRow(urls[k], crawl_type, time)]

\* enqueue_all run without interruption.
enqueue_all(q, idx, urls, lenses, settings, overrides, time) ==
    LET kept == FilterUrls(urls, lenses, settings, overrides)
        to_add == ToAdd(kept, IsQueued(q, kept), IsIndexed(idx, kept))
    IN IF to_add = <<>> THEN q ELSE insert_many(q, to_add, overrides.crawl_type, time)

\* What enqueue_all returns: the ? after each read of the duplicate gate hands
\* the error of the read to the caller; the match on the result of the insert
\* logs an error and goes on to Ok(()).
enqueue_all_result(is_queued_failed, is_indexed_failed, insert_failed) ==
    IF is_queued_failed \/ is_indexed_failed THEN "db_error" ELSE "ok"

\* --------------------------------------------------------------- mark_done
mark_done(q, id, status, time) ==
    LET crawl == q[id] IN
    IF status = Failed /\ crawl.num_retries <= MAX_RETRIES
    THEN [q EXCEPT ![id] = [crawl EXCEPT !.num_retries = crawl.num_retries + 1,
                                         !.status = Queued,
                                         !.updated_at = time]]
    ELSE [q EXCEPT ![id] = [crawl EXCEPT !.status = status, !.updated_at = time]]

\* -------------------------------------------------------- reset_processing
\* reset_processing without its filter on the status.
ResetEveryRow(q) == [i \in Ids(q) |-> [q[i] EXCEPT !.status = Queued]]

\* update_many: no before_save hook runs, updated_at stays.
reset_processing(q) ==
    [i \in Ids(q) |-> IF q[i].status = Processing
                      THEN [q[i] EXCEPT !.status = Queued] ELSE q[i]]

\* ------------------------------------------------------------------- inputs
UrlAX == <<"https://", "a", ".com", "/x">>
UrlAY == <<"https://", "a", ".com", "/y">>
UrlBX == <<"https://", "b", ".com", "/x">>

\* The rows indexed_document may hold when the queue is created.
DocAY == [domain |-> HostA, url |-> UrlAY]

\* Candidates offered to enqueue_all: urls, a url with a fragment, a string
\* that is no absolute url and a url without a host.
RawUrls == {UrlAX, UrlAX \o <<"#f">>, UrlAY, UrlBX, <<"a", ".com", "/x">>, <<"mailto:", "u">>}

Workers == {"w1", "w2"}
Enqueuers == {"e1", "e2"}

LensA == [domains |-> <<HostA>>, urls |-> <<>>]

UserSettings(dcl, idl, icl, block_list, crawl_external_links) ==
    [domain_crawl_limit |-> dcl, inflight_domain_limit |-> idl,
     inflight_crawl_limit |-> icl, block_list |-> block_list,
     crawl_external_links |-> crawl_external_links]

\* The limits dequeue is called with.
DequeueSettings ==
    {UserSettings(Unlimited, Unlimited, Unlimited, {}, FALSE),
     UserSettings(Finite(1), Unlimited, Unlimited, {}, FALSE),
     UserSettings(Unlimited, Unlimited, Finite(1), {}, FALSE)}

\* The <<p_domains, p_prefixes>> dequeue is called with.
Priorities ==
    {<< <<>>, <<>> >>,
     << <<HostB>>, <<>> >>,
     << <<>>, << <<"https://", "a">> >> >>}

EnqueueSettings(skip_blocklist, skip_lenses, crawl_type) ==
    [skip_blocklist |-> skip_blocklist, skip_lenses |-> skip_lenses,
     crawl_type |-> crawl_type]

\* The batches of one or two candidates.
Batches == {<<u>> : u \in RawUrls} \cup {<<u, v>> : u, v \in RawUrls}

\* -------------------------------------------------------------------- state
VARIABLES
    crawl_queue,        \* the crawl_queue table: a sequence of rows, the id is the index
    indexed_document,   \* the indexed_document table: a set of [domain, url]
    now,                \* chrono::Utc::now()
    worker,             \* per worker: where it is and the task dequeue returned to it
    enq,                \* per caller of enqueue_all: where it is and its to_add
    failed_reports,     \* per row: the mark_done(id, Failed) calls made so far
    call                \* the call that made the last step, with what it returned

vars == <<crawl_queue, indexed_document, now, worker, enq, failed_reports, call>>

Idle == [pc |-> "idle", task |-> NoTask]
EnqIdle == [pc |-> "idle", to_add |-> <<>>, crawl_type |-> Normal]
NoCall == [op |-> "none"]

Init ==
    /\ crawl_queue = <<>>
    /\ indexed_document \in {{}, {DocAY}}
    /\ now = 0
    /\ worker = [w \in Workers |-> Idle]
    /\ enq = [e \in Enqueuers |-> EnqIdle]
    /\ failed_reports = <<>>
    /\ call = NoCall

\* The clock advances between calls.
Tick ==
    /\ now < MaxTime
    /\ now' = now + 1
    /\ call' = NoCall
    /\ UNCHANGED <<crawl_queue, indexed_document, worker, enq, failed_reports>>

\* DequeueCall where dequeue itself sets the row it returns to Processing.
DequeueAndClaim(w, settings, p_domains, p_prefixes) ==
    /\ worker[w].pc = "idle"
    /\ \E r \in dequeue(crawl_queue, indexed_document, settings, p_domains, p_prefixes) :
        /\ worker' = [worker EXCEPT ![w] =
                        IF r = NoTask THEN Idle ELSE [pc |-> "processing", task |-> r]]
        /\ crawl_queue' = IF r = NoTask THEN crawl_queue
                          ELSE [crawl_queue EXCEPT ![r].status = Processing,
                                                   ![r].updated_at = now]
        /\ call' = [op |-> "dequeue", settings |-> settings, p_domains |-> p_domains,
                    p_prefixes |-> p_prefixes, result |-> r]
    /\ UNCHANGED <<indexed_document, now, enq, failed_reports>>

\* Worker w calls dequeue; the table is only read.
DequeueCall(w, settings, p_domains, p_prefixes) ==
    /\ worker[w].pc = "idle"
    /\ \E r \in dequeue(crawl_queue, indexed_document, settings, p_domains, p_prefixes) :
        /\ worker' = [worker EXCEPT ![w] =
                        IF r = NoTask THEN Idle ELSE [pc |-> "received", task |-> r]]
        /\ call' = [op |-> "dequeue", settings |-> settings, p_domains |-> p_domains,
                    p_prefixes |-> p_prefixes, result |-> r]
    /\ UNCHANGED <<crawl_queue, indexed_document, now, enq, failed_reports>>

\* Worker w, as its first action on a task, moves it from Queued to Processing
\* with an update guarded on id and status; when no row is updated it has no task.
Claim(w) ==
    /\ worker[w].pc = "received"
    /\ LET id == worker[w].task IN
       IF crawl_queue[id].status = Queued
       THEN /\ crawl_queue' = [crawl_queue EXCEPT ![id].status = Processing,
                                                  ![id].updated_at = now]
            /\ worker' = [worker EXCEPT ![w].pc = "processing"]
       ELSE /\ worker' = [worker EXCEPT ![w] = Idle]
            /\ UNCHANGED crawl_queue
    /\ call' = NoCall
    /\ UNCHANGED <<indexed_document, now, enq, failed_reports>>

\* mark_done(id, status) of any row, by the worker that holds it or by a late
\* or repeated report; a reported task is held by no worker.
MarkDoneCall(id, status, max_reports) ==
    /\ status = Failed => failed_reports[id] < max_reports
    /\ crawl_queue' = mark_done(crawl_queue, id, status, now)
    /\ failed_reports' = [failed_reports EXCEPT ![id] = IF status = Failed THEN @ + 1 ELSE @]
    /\ worker' = [w \in Workers |-> IF worker[w].task = id THEN Idle ELSE worker[w]]
    /\ call' = NoCall
    /\ UNCHANGED <<indexed_document, now, enq>>

\* reset_processing, at the start of the process: no worker holds a task.
ResetProcessingCall ==
    /\ crawl_queue' = reset_processing(crawl_queue)
    /\ worker' = [w \in Workers |-> Idle]
    /\ call' = [op |-> "reset_processing", rows_affected |-> NumInProgress(crawl_queue)]
    /\ UNCHANGED <<indexed_document, now, enq, failed_reports>>

\* enqueue_all up to its insert: the filter and the two reads of the duplicate
\* gate.  With nothing to add the call returns.
EnqueueRead(e, urls, lenses, settings, overrides) ==
    /\ enq[e].pc = "idle"
    /\ LET kept == FilterUrls(urls, lenses, settings, overrides)
           to_add == ToAdd(kept, IsQueued(crawl_queue, kept), IsIndexed(indexed_document, kept))
       IN /\ enq' = [enq EXCEPT ![e] =
                        IF to_add = <<>> THEN EnqIdle
                        ELSE [pc |-> "insert", to_add |-> to_add,
                              crawl_type |-> overrides.crawl_type]]
          /\ call' = IF to_add = <<>> THEN [op |-> "enqueue_all", kept |-> Len(kept)]
                     ELSE NoCall
    /\ UNCHANGED <<crawl_queue, indexed_document, now, worker, failed_reports>>

\* The insert of enqueue_all.
EnqueueInsert(e) ==
    /\ enq[e].pc = "insert"
    /\ LET q == insert_many(crawl_queue, enq[e].to_add, enq[e].crawl_type, now) IN
        /\ crawl_queue' = q
        /\ failed_reports' = failed_reports \o [k \in 1..(Len(q) - Len(crawl_queue)) |-> 0]
    /\ enq' = [enq EXCEPT ![e] = EnqIdle]
    /\ call' = [op |-> "insert_many", err |-> UniqueViolation(crawl_queue, enq[e].to_add)]
    /\ UNCHANGED <<indexed_document, now, worker>>

\* enqueue_all when the database fails one of the two reads of the duplicate
\* gate: nothing is written and the call is over.
EnqueueReadFails(e, read) ==
    /\ enq[e].pc = "idle"
    /\ call' = [op |-> "db_failure", step |-> read,
                returned |-> enqueue_all_result(read = "is_queued", read = "is_indexed", FALSE)]
    /\ UNCHANGED <<crawl_queue, indexed_document, now, worker, enq, failed_reports>>

\* The insert of enqueue_all when the database fails the statement for a
\* reason other than the unique index: nothing is written.
EnqueueInsertFails(e) ==
    /\ enq[e].pc = "insert"
    /\ enq' = [enq EXCEPT ![e] = EnqIdle]
    /\ call' = [op |-> "db_failure", step |-> "insert_many",
                returned |-> enqueue_all_result(FALSE, FALSE, TRUE)]
    /\ UNCHANGED <<crawl_queue, indexed_document, now, worker, failed_reports>>

\* enqueue_all with no other call between its reads and its insert.
EnqueueAllCall(urls, lenses, settings, overrides) ==
    /\ LET q == enqueue_all(crawl_queue, indexed_document, urls, lenses, settings, overrides, now) IN
        /\ crawl_queue' = q
        /\ failed_reports' = failed_reports \o [k \in 1..(Len(q) - Len(crawl_queue)) |-> 0]
    /\ call' = NoCall
    /\ UNCHANGED <<indexed_document, now, worker, enq>>

\* enqueue_all with no other call between its reads and its insert, its
\* arguments, the number of urls its filter kept and the number of rows it
\* added on record.
EnqueueAllRecorded(urls, lenses, settings, overrides) ==
    /\ LET q == enqueue_all(crawl_queue, indexed_document, urls, lenses, settings, overrides, now) IN
        /\ crawl_queue' = q
        /\ failed_reports' = failed_reports \o [k \in 1..(Len(q) - Len(crawl_queue)) |-> 0]
        /\ call' = [op |-> "enqueue_all", urls |-> urls, lenses |-> lenses,
                    settings |-> settings, overrides |-> overrides,
                    kept |-> Len(FilterUrls(urls, lenses, settings, overrides)),
                    added |-> Len(q) - Len(crawl_queue)]
    /\ UNCHANGED <<indexed_document, now, worker, enq>>

\* ----------------------------------------------------------- specifications
\* The settings and overrides of the enqueue_all calls of Spec: the lens rule
\* skipped, as the callers that add a url by hand do.
PlainSettings == UserSettings(Unlimited, Unlimited, Unlimited, {}, FALSE)

\* The scheduler: a worker that dequeues under every limit and priority beside
\* a worker that dequeues without limits, reports, restarts, and enqueue_all
\* calls that run undisturbed, each for one url of one of two hosts.
Next ==
    \/ Tick
    \/ \E s \in DequeueSettings, p \in Priorities : DequeueCall("w1", s, p[1], p[2])
    \/ DequeueCall("w2", PlainSettings, <<>>, <<>>)
    \/ \E w \in Workers : Claim(w)
    \/ \E id \in Ids(crawl_queue) : MarkDoneCall(id, Completed, MaxFailedReports)
    \/ ResetProcessingCall
    \/ \E u \in {UrlAX, UrlBX}, t \in CrawlType :
          EnqueueAllCall(<<u>>, <<>>, PlainSettings, EnqueueSettings(FALSE, TRUE, t))

Spec == Init /\ [][Next]_vars

\* The cases of admission the enqueue_all calls of SpecEnqueue are made with,
\* as <<lenses, settings, overrides>>: the lens rule skipped, and the lens rule
\* and the blocklist applied.
EnqueueCases ==
    {<< <<>>, PlainSettings, EnqueueSettings(FALSE, TRUE, Normal) >>,
     << <<LensA>>, UserSettings(Unlimited, Unlimited, Unlimited, {HostB}, FALSE),
        EnqueueSettings(FALSE, FALSE, Bootstrap) >>}

\* The batches of SpecEnqueue: a string that is no url, a url without a host,
\* and one or two of the urls of the two hosts, with and without a fragment.
EnqueueBatches ==
    {<< <<"a", ".com", "/x">> >>, << <<"mailto:", "u">> >>}
    \cup {<<u>> : u \in {UrlAX, UrlAX \o <<"#f">>, UrlBX}}
    \cup {<<u, v>> : u, v \in {UrlAX, UrlAX \o <<"#f">>, UrlBX}}

\* Enqueueing: two callers of enqueue_all whose reads and inserts interleave
\* with each other and with a worker, reports and restarts.  The second caller
\* offers one url at a time.
NextEnqueue ==
    \/ DequeueCall("w1", PlainSettings, <<>>, <<>>)
    \/ Claim("w1")
    \/ \E id \in Ids(crawl_queue), st \in {Completed, Failed} :
          MarkDoneCall(id, st, MaxFailedReports)
    \/ ResetProcessingCall
    \/ \E b \in EnqueueBatches, c \in EnqueueCases : EnqueueRead("e1", b, c[1], c[2], c[3])
    \/ \E u \in {UrlAX, UrlBX} :
          EnqueueRead("e2", <<u>>, <<>>, PlainSettings, EnqueueSettings(FALSE, TRUE, Normal))
    \/ \E e \in Enqueuers : EnqueueInsert(e)

SpecEnqueue == Init /\ [][NextEnqueue]_vars

\* Retries: two urls enqueued one at a time, one worker, restarts, and reports
\* of up to MaxRetryReports failures per row, all within one tick of the clock.
NextRetry ==
    \/ DequeueCall("w1", PlainSettings, <<>>, <<>>)
    \/ Claim("w1")
    \/ \E id \in Ids(crawl_queue), st \in {Completed, Failed} :
          MarkDoneCall(id, st, MaxRetryReports)
    \/ ResetProcessingCall
    \/ \E u \in {UrlAX, UrlBX} :
          EnqueueRead("e1", <<u>>, <<>>, PlainSettings, EnqueueSettings(FALSE, TRUE, Normal))
    \/ EnqueueInsert("e1")

SpecRetry == Init /\ [][NextRetry]_vars

\* The batches of SpecAdmit: a url with and without a fragment, a url that is
\* indexed, with and without a fragment, beside one that is not, and a url
\* without a host beside a url.
AdmitBatches ==
    {<<UrlAX>>, <<UrlAX \o <<"#f">>>>, <<UrlAY, UrlBX>>, <<UrlAY \o <<"#f">>, UrlBX>>,
     << <<"mailto:", "u">>, UrlBX >>}

\* The calls of SpecAdmit, as <<lenses, settings, overrides>>: no lens with the
\* lens rule skipped and applied; a lens for one host and the other host
\* blocked, with each override alone and with external links.
AdmitCases ==
    {<< <<>>, UserSettings(Unlimited, Unlimited, Unlimited, {}, FALSE),
        EnqueueSettings(FALSE, TRUE, Normal) >>,
     << <<>>, UserSettings(Unlimited, Unlimited, Unlimited, {}, FALSE),
        EnqueueSettings(TRUE, FALSE, Normal) >>,
     << <<LensA>>, UserSettings(Unlimited, Unlimited, Unlimited, {HostB}, FALSE),
        EnqueueSettings(FALSE, FALSE, Normal) >>,
     << <<LensA>>, UserSettings(Unlimited, Unlimited, Unlimited, {HostB}, FALSE),
        EnqueueSettings(TRUE, FALSE, Bootstrap) >>,
     << <<LensA>>, UserSettings(Unlimited, Unlimited, Unlimited, {HostB}, FALSE),
        EnqueueSettings(FALSE, TRUE, Bootstrap) >>,
     << <<LensA>>, UserSettings(Unlimited, Unlimited, Unlimited, {HostB}, TRUE),
        EnqueueSettings(FALSE, FALSE, Normal) >>,
     << <<LensA>>, UserSettings(Unlimited, Unlimited, Unlimited, {HostB}, TRUE),
        EnqueueSettings(TRUE, FALSE, Bootstrap) >>}

\* Every <<lenses, settings, overrides>> over no lens or one, no blocked host or
\* one, and every override, external-links flag and crawl type.
AdmitInputs ==
    {<< lenses, UserSettings(Unlimited, Unlimited, Unlimited, block_list, crawl_external_links),
        EnqueueSettings(skip_blocklist, skip_lenses, t) >> :
        lenses \in {<<>>, <<LensA>>}, block_list \in {{}, {HostB}},
        crawl_external_links \in BOOLEAN, skip_blocklist \in BOOLEAN,
        skip_lenses \in BOOLEAN, t \in CrawlType}

\* Admission: enqueue_all calls that run undisturbed, one after the other.
NextAdmit ==
    \E b \in AdmitBatches, c \in AdmitCases : EnqueueAllRecorded(b, c[1], c[2], c[3])

SpecAdmit == Init /\ [][NextAdmit]_vars

\* Failures of the database: one caller of enqueue_all whose reads and insert
\* the database may fail, beside a worker, reports and restarts.
NextFault ==
    \/ DequeueCall("w1", PlainSettings, <<>>, <<>>)
    \/ Claim("w1")
    \/ \E id \in Ids(crawl_queue), st \in {Completed, Failed} :
          MarkDoneCall(id, st, MaxFailedReports)
    \/ ResetProcessingCall
    \/ \E u \in {UrlAX, UrlBX} :
          EnqueueRead("e1", <<u>>, <<>>, PlainSettings, EnqueueSettings(FALSE, TRUE, Normal))
    \/ EnqueueInsert("e1")
    \/ \E read \in {"is_queued", "is_indexed"} : EnqueueReadFails("e1", read)
    \/ EnqueueInsertFails("e1")

SpecFault == Init /\ [][NextFault]_vars

\* The settings of the workers of SpecCap: one crawl in flight at most.
CapSettings == UserSettings(Unlimited, Unlimited, Finite(1), {}, FALSE)

\* The global cap: two workers that dequeue under the same inflight_crawl_limit
\* and then claim what they received, reports of success, restarts, and
\* enqueue_all calls for a Normal url and for a Bootstrap url.
NextCap ==
    \/ \E w \in Workers : DequeueCall(w, CapSettings, <<>>, <<>>)
    \/ \E w \in Workers : Claim(w)
    \/ \E id \in Ids(crawl_queue) : MarkDoneCall(id, Completed, MaxFailedReports)
    \/ ResetProcessingCall
    \/ EnqueueAllCall(<<UrlAX>>, <<>>, PlainSettings, EnqueueSettings(FALSE, TRUE, Normal))
    \/ EnqueueAllCall(<<UrlBX>>, <<>>, PlainSettings, EnqueueSettings(FALSE, TRUE, Bootstrap))

SpecCap == Init /\ [][NextCap]_vars

\* A url with a percent-encoded space, a url that differs from it in the place
\* of the percent sign, and the prefix of the first up to its encoded space.
UrlPct == <<"https://", "a", ".com", "/p", "%", "20">>
UrlPx == <<"https://", "a", ".com", "/p", "x", "20">>
PrefixPct == <<"https://", "a", ".com", "/p", "%", "20">>

\* The <<p_domains, p_prefixes>> of SpecPriority: a prefix and a domain, a
\* prefix alone, a domain pattern with a wildcard, and none.
PriorityArgs ==
    {<< <<HostB>>, <<PrefixPct>> >>,
     << <<>>, <<PrefixPct>> >>,
     << << <<"b", "*">> >>, <<>> >>,
     << <<>>, <<>> >>}

\* Priorities: a worker that dequeues under each priority, claims and reports
\* success, while Normal urls of two hosts are enqueued as the clock advances.
NextPriority ==
    \/ Tick
    \/ \E p \in PriorityArgs : DequeueCall("w1", PlainSettings, p[1], p[2])
    \/ Claim("w1")
    \/ \E id \in Ids(crawl_queue) : MarkDoneCall(id, Completed, MaxFailedReports)
    \/ \E u \in {UrlPct, UrlPx, UrlBX} :
          EnqueueAllCall(<<u>>, <<>>, PlainSettings, EnqueueSettings(FALSE, TRUE, Normal))

SpecPriority == Init /\ [][NextPriority]_vars

\* Last touch: a worker that dequeues under each priority and claims, reports
\* of success and of failure, and enqueue_all calls for Normal and Bootstrap
\* urls of two hosts as the clock advances.
NextFifo ==
    \/ Tick
    \/ \E p \in Priorities : DequeueCall("w1", PlainSettings, p[1], p[2])
    \/ Claim("w1")
    \/ \E id \in Ids(crawl_queue), st \in {Completed, Failed} :
          MarkDoneCall(id, st, MaxFailedReports)
    \/ \E u \in {UrlAX, UrlBX}, t \in {Normal, Bootstrap} :
          EnqueueAllCall(<<u>>, <<>>, PlainSettings, EnqueueSettings(FALSE, TRUE, t))

SpecFifo == Init /\ [][NextFifo]_vars

\* Statuses: a worker that dequeues under each priority and claims, restarts,
\* reports of success and of up to MaxRetryReports failures per row, and
\* enqueue_all calls for Normal and Bootstrap urls of two hosts, all within one
\* tick of the clock.
NextStatus ==
    \/ \E p \in Priorities : DequeueCall("w1", PlainSettings, p[1], p[2])
    \/ Claim("w1")
    \/ \E id \in Ids(crawl_queue), st \in {Completed, Failed} :
          MarkDoneCall(id, st, MaxRetryReports)
    \/ ResetProcessingCall
    \/ \E u \in {UrlAX, UrlBX}, t \in {Normal, Bootstrap} :
          EnqueueAllCall(<<u>>, <<>>, PlainSettings, EnqueueSettings(FALSE, TRUE, t))

SpecStatus == Init /\ [][NextStatus]_vars

\* ------------------------------------------------------------------- claims
\* C1: a task that dequeue returned to one worker is not returned to another
\* worker before it is reported with mark_done or reset by reset_processing:
\* no two workers hold the same task.
NeverHandedTwice ==
    \A w1, w2 \in Workers :
        (w1 # w2 /\ worker[w1].task # NoTask) => worker[w1].task # worker[w2].task

\* C2: from a fresh Queued task, once MAX_RETRIES + 1 reports of failure have
\* been made the row is terminal (Failed, or Completed by a report of success):
\* it is not Queued and not Processing.
SixthFailureIsTerminal ==
    \A id \in Ids(crawl_queue) :
        failed_reports[id] >= MAX_RETRIES + 1 => crawl_queue[id].status \in {Failed, Completed}

\* C3: no two rows of crawl_queue have the same url.
UniqueUrls ==
    \A i, j \in 1..Len(crawl_queue) : i # j => crawl_queue[i].url # crawl_queue[j].url

\* C3 witness: an insert has just been refused by the unique index, while the
\* table holds two rows.
UniqueUrlsWitness ==
    call.op = "insert_many" /\ call.err /\ Len(crawl_queue) = 2

\* What C4 compares of a table: the url, status, retry count and crawl type of
\* every row.
RowsOf(q) ==
    [i \in 1..Len(q) |-> [url |-> q[i].url, status |-> q[i].status,
                          num_retries |-> q[i].num_retries, crawl_type |-> q[i].crawl_type]]

\* The urls enqueue_all keeps of every batch under every case.
KeptUrls ==
    [b \in EnqueueBatches, c \in EnqueueCases |-> FilterUrls(b, c[1], c[2], c[3])]

\* C4: from every reachable table and for every batch, enqueue_all called twice
\* leaves the rows that calling it once leaves; the rows that were there are as
\* they were, and no url that is in the table, whatever its status, is among the
\* urls enqueue_all goes on to insert.
EnqueueIdempotent ==
    \A b \in EnqueueBatches, c \in EnqueueCases :
        \A once \in {enqueue_all(crawl_queue, indexed_document, b, c[1], c[2], c[3], now)} :
        \A twice \in {enqueue_all(once, indexed_document, b, c[1], c[2], c[3], MaxTime)} :
        LET kept == KeptUrls[b, c]
            to_add == ToAdd(kept, IsQueued(crawl_queue, kept), IsIndexed(indexed_document, kept))
        IN /\ RowsOf(twice) = RowsOf(once)
           /\ \A i \in 1..Len(crawl_queue) : once[i] = crawl_queue[i]
           /\ \A k \in 1..Len(to_add) :
                \A i \in 1..Len(crawl_queue) : crawl_queue[i].url # to_add[k]

\* C4 witness: enqueue_all has just returned with nothing to add for a url it
\* kept, and the table holds a Completed and a Failed row.
EnqueueIdempotentWitness ==
    /\ call.op = "enqueue_all" /\ call.kept = 1
    /\ Len(crawl_queue) = 2
    /\ \E i, j \in 1..Len(crawl_queue) :
        crawl_queue[i].status = Completed /\ crawl_queue[j].status = Failed

\* C5: the insert of enqueue_all leaves every url of to_add in the table,
\* whether or not the insert met a conflict on another url.
InsertSkipsOnlyConflicts ==
    [][\A e \in Enqueuers :
        (enq[e].pc = "insert" /\ enq'[e].pc = "idle") =>
            \A k \in 1..Len(enq[e].to_add) :
                \E i \in 1..Len(crawl_queue') : crawl_queue'[i].url = enq[e].to_add[k]]_vars

\* The indexed documents of the domain of row id.
DocsOnDomainOf(id) ==
    Cardinality({d \in indexed_document : d.domain = crawl_queue[id].domain})

\* C6 as claimed: a dequeue under domain_crawl_limit = Finite(k) returns no task,
\* of any crawl type, whose domain has k or more indexed documents.
DomainCapEveryType ==
    (call.op = "dequeue" /\ call.settings.domain_crawl_limit.finite /\ call.result # NoTask)
        => DocsOnDomainOf(call.result) < call.settings.domain_crawl_limit.n

\* C6 as amended: a dequeue under domain_crawl_limit = Finite(k) returns no Api
\* or Normal task whose domain has k or more indexed documents.
DomainCapNotBootstrap ==
    (/\ call.op = "dequeue" /\ call.settings.domain_crawl_limit.finite
     /\ call.result # NoTask
     /\ crawl_queue[call.result].crawl_type # Bootstrap)
        => DocsOnDomainOf(call.result) < call.settings.domain_crawl_limit.n

\* C6 witness: dequeue, called with a prioritised prefix and a domain limit of
\* one document, has returned None although a Normal task is Queued, because
\* the domain of the task has an indexed document.
DomainCapWitness ==
    /\ call.op = "dequeue" /\ call.settings.domain_crawl_limit = Finite(1)
    /\ call.p_prefixes # <<>>
    /\ call.result = NoTask
    /\ \E i \in 1..Len(crawl_queue) :
        /\ crawl_queue[i].status = Queued /\ crawl_queue[i].crawl_type = Normal
        /\ DocsOnDomainOf(i) >= 1

\* The rows in Processing.
ProcessingRows == {i \in 1..Len(crawl_queue) : crawl_queue[i].status = Processing}

\* C7: a dequeue under inflight_crawl_limit = Finite(n) with n or more rows in
\* Processing returns None.
GlobalCap ==
    (/\ call.op = "dequeue" /\ call.settings.inflight_crawl_limit.finite
     /\ Cardinality(ProcessingRows) >= call.settings.inflight_crawl_limit.n)
        => call.result = NoTask

\* C7 witness: dequeue has returned None under a limit of one inflight crawl,
\* with a row in Processing and a Bootstrap task Queued.
GlobalCapWitness ==
    /\ call.op = "dequeue" /\ call.settings.inflight_crawl_limit = Finite(1)
    /\ call.result = NoTask
    /\ ProcessingRows # {}
    /\ \E i \in 1..Len(crawl_queue) :
        crawl_queue[i].status = Queued /\ crawl_queue[i].crawl_type = Bootstrap

\* The global inflight limit of the last dequeue is reached.
CapReached ==
    /\ call.settings.inflight_crawl_limit.finite
    /\ Cardinality(ProcessingRows) >= call.settings.inflight_crawl_limit.n

\* C8: a dequeue made while a Bootstrap task is Queued and the global inflight
\* limit is not reached returns a Queued Bootstrap task.
BootstrapFirst ==
    (/\ call.op = "dequeue"
     /\ \E i \in 1..Len(crawl_queue) :
            crawl_queue[i].status = Queued /\ crawl_queue[i].crawl_type = Bootstrap
     /\ ~CapReached)
        => /\ call.result # NoTask
           /\ crawl_queue[call.result].status = Queued
           /\ crawl_queue[call.result].crawl_type = Bootstrap

\* C8 witness: dequeue has returned a Bootstrap task although an older Normal task
\* that matches a prioritised prefix is Queued.
BootstrapFirstWitness ==
    /\ call.op = "dequeue" /\ call.result # NoTask
    /\ crawl_queue[call.result].crawl_type = Bootstrap
    /\ \E i \in 1..Len(crawl_queue), k \in 1..Len(call.p_prefixes) :
        /\ crawl_queue[i].status = Queued /\ crawl_queue[i].crawl_type = Normal
        /\ crawl_queue[i].updated_at < crawl_queue[call.result].updated_at
        /\ Like(crawl_queue[i].url, call.p_prefixes[k] \o <<"%">>)

\* C9: a row that is Completed or Failed keeps its status in every step.
TerminalStays ==
    [][\A i \in 1..Len(crawl_queue) :
        crawl_queue[i].status \in {Completed, Failed}
            => crawl_queue'[i].status = crawl_queue[i].status]_vars

\* C10: a reset_processing step sets the Processing rows to Queued and no other
\* status, leaves no row in Processing, and keeps the url, domain, crawl type
\* and retry count of every row.
ResetFrame ==
    [][call'.op = "reset_processing" =>
        /\ Len(crawl_queue') = Len(crawl_queue)
        /\ \A i \in 1..Len(crawl_queue) :
            /\ crawl_queue'[i].status =
                  IF crawl_queue[i].status = Processing THEN Queued ELSE crawl_queue[i].status
            /\ crawl_queue'[i].url = crawl_queue[i].url
            /\ crawl_queue'[i].domain = crawl_queue[i].domain
            /\ crawl_queue'[i].crawl_type = crawl_queue[i].crawl_type
            /\ crawl_queue'[i].num_retries = crawl_queue[i].num_retries]_vars

\* C10 witness: reset_processing has just reset a row, beside a Completed row
\* and after a retry.
ResetFrameWitness ==
    /\ call.op = "reset_processing" /\ call.rows_affected >= 1
    /\ ProcessingRows = {}
    /\ \E i, j \in 1..Len(crawl_queue) :
        /\ crawl_queue[i].status = Completed
        /\ crawl_queue[j].status = Queued /\ crawl_queue[j].num_retries >= 1

\* The urls of indexed_document.
IndexedUrls == {d.url : d \in indexed_document}

\* The rows a call of enqueue_all added to the table q0, given the table q1 it left.
AddedRows(q0, q1) == {q1[k] : k \in (Len(q0) + 1)..Len(q1)}

\* C11: from every reachable table, for every batch and every setting of the
\* lenses, the blocklist, the overrides, crawl_external_links and crawl_type,
\* no row that enqueue_all adds has a url that is in indexed_document.
IndexedNeverInserted ==
    \A b \in AdmitBatches, c \in AdmitInputs :
        \A q \in {enqueue_all(crawl_queue, indexed_document, b, c[1], c[2], c[3], now)} :
            \A r \in AddedRows(crawl_queue, q) : r.url \notin IndexedUrls

\* C11 witness: enqueue_all has returned from a batch of an indexed url, given
\* with a fragment, and a url that is not indexed; its filter kept both, and it
\* added the second only.
IndexedNeverInsertedWitness ==
    /\ DocAY \in indexed_document
    /\ call.op = "enqueue_all" /\ call.urls = <<UrlAY \o <<"#f">>, UrlBX>>
    /\ call.kept = 2 /\ call.added = 1
    /\ crawl_queue[Len(crawl_queue)].url = UrlBX
    /\ UrlAY \notin UrlsOf(crawl_queue)

\* C12: from every reachable table, with skip_lenses and crawl_external_links
\* false and no lens, enqueue_all of every batch leaves the table as it was,
\* for every skip_blocklist, block_list and crawl_type.
NoLensNoInsert ==
    \A b \in AdmitBatches, c \in AdmitInputs :
        (c[1] = <<>> /\ ~c[3].skip_lenses /\ ~c[2].crawl_external_links) =>
            enqueue_all(crawl_queue, indexed_document, b, c[1], c[2], c[3], now) = crawl_queue

\* C12 witness: enqueue_all has returned from a batch of a url that is neither
\* queued nor indexed, called with no lens, skip_lenses and
\* crawl_external_links false and skip_blocklist true: it added no row.
NoLensNoInsertWitness ==
    /\ call.op = "enqueue_all" /\ call.urls = <<UrlAX>>
    /\ call.lenses = <<>> /\ ~call.overrides.skip_lenses
    /\ ~call.settings.crawl_external_links /\ call.overrides.skip_blocklist
    /\ call.kept = 0 /\ call.added = 0
    /\ UrlAX \notin UrlsOf(crawl_queue)

\* C13: from every reachable table and for every batch, lens list, blocklist,
\* override and crawl_external_links, a row that enqueue_all adds has a host in
\* block_list only when skip_blocklist is true, and, when skip_lenses and
\* crawl_external_links are false, is of the host of a lens, whatever
\* skip_blocklist is.
OverridesIndependent ==
    \A b \in AdmitBatches, c \in AdmitInputs :
        \A q \in {enqueue_all(crawl_queue, indexed_document, b, c[1], c[2], c[3], now)} :
            \A r \in AddedRows(crawl_queue, q) :
                /\ r.domain \in c[2].block_list => c[3].skip_blocklist
                /\ (~c[3].skip_lenses /\ ~c[2].crawl_external_links) =>
                        (c[1] = <<LensA>> /\ r.domain = HostA)

\* C13 witness: enqueue_all has returned from a batch with a url of a blocked
\* host that matches no lens, called with skip_blocklist true and skip_lenses
\* and crawl_external_links false: the url, which is not queued, was not added.
OverridesIndependentWitness ==
    /\ call.op = "enqueue_all" /\ call.urls = << <<"mailto:", "u">>, UrlBX >>
    /\ call.lenses = <<LensA>> /\ HostB \in call.settings.block_list
    /\ call.overrides.skip_blocklist /\ ~call.overrides.skip_lenses
    /\ ~call.settings.crawl_external_links
    /\ call.added = 0
    /\ UrlBX \notin UrlsOf(crawl_queue)
    /\ UrlAX \in UrlsOf(crawl_queue)

\* C15: from every reachable table, for every url u with a host and every
\* setting, enqueue_all of u with a fragment leaves the table that enqueue_all
\* of u leaves, the url persisted being u; and enqueue_all of the one after the
\* other, in either order, leaves that table too: one row for u when u was
\* added, none otherwise.
FragmentInvariance ==
    \A u \in {UrlAX, UrlAY, UrlBX}, c \in AdmitInputs :
        \A plain \in {enqueue_all(crawl_queue, indexed_document, <<u>>, c[1], c[2], c[3], now)} :
        \A frag \in {enqueue_all(crawl_queue, indexed_document, <<u \o <<"#f">>>>, c[1], c[2], c[3], now)} :
            /\ frag = plain
            /\ Len(plain) <= Len(crawl_queue) + 1
            /\ \A r \in AddedRows(crawl_queue, frag) : r.url = u
            /\ enqueue_all(plain, indexed_document, <<u \o <<"#f">>>>, c[1], c[2], c[3], now) = plain
            /\ enqueue_all(frag, indexed_document, <<u>>, c[1], c[2], c[3], now) = plain

\* C15 witness: enqueue_all of a url with a fragment has added one row, whose
\* url is the url without the fragment, and a call with the url without the
\* fragment would add nothing.
FragmentInvarianceWitness ==
    /\ call.op = "enqueue_all" /\ call.urls = <<UrlAX \o <<"#f">>>>
    /\ call.added = 1
    /\ crawl_queue[Len(crawl_queue)].url = UrlAX
    /\ enqueue_all(crawl_queue, indexed_document, <<UrlAX>>, <<>>, PlainSettings,
                   EnqueueSettings(FALSE, TRUE, Normal), now) = crawl_queue

\* C14: when the database fails a step of enqueue_all, a read of the duplicate
\* gate or the insert, for a reason other than the unique index, enqueue_all
\* returns db_error.
DbFailurePropagates ==
    call.op = "db_failure" => call.returned = "db_error"

\* C16: with every dequeue made under inflight_crawl_limit = Finite(n), and
\* every worker setting the row it received to Processing, at most n rows are
\* in Processing.
InflightNeverExceeds ==
    Cardinality(ProcessingRows) <= CapSettings.inflight_crawl_limit.n

\* url starts with prefix.
StartsWith(url, prefix) ==
    Len(url) >= Len(prefix) /\ SubSeq(url, 1, Len(prefix)) = prefix

\* The rows the last dequeue could choose from: Queued and within the limits
\* of their domain.
EligibleAtCall ==
    {i \in Ids(crawl_queue) : Eligible(crawl_queue, indexed_document, call.settings, i)}

\* The eligible rows whose url starts with a prioritised prefix of the last dequeue.
PrefixTier ==
    {i \in EligibleAtCall :
        \E k \in 1..Len(call.p_prefixes) : StartsWith(crawl_queue[i].url, call.p_prefixes[k])}

\* The eligible rows whose domain matches a prioritised domain pattern of the
\* last dequeue, * standing for any run of characters.
DomainTier ==
    {i \in EligibleAtCall :
        \E k \in 1..Len(call.p_domains) :
            Like(crawl_queue[i].domain, ReplaceStar(call.p_domains[k]))}

\* C17: a dequeue that returns a task while no Bootstrap task is Queued returns
\* a task whose url starts with a prioritised prefix when an eligible task has
\* such a url, and otherwise a task whose domain matches a prioritised domain
\* pattern when an eligible task has such a domain.
PriorityTiers ==
    (call.op = "dequeue" /\ call.result # NoTask /\ BootstrapQueued(crawl_queue) = {}) =>
        /\ PrefixTier # {} => call.result \in PrefixTier
        /\ (PrefixTier = {} /\ DomainTier # {}) => call.result \in DomainTier

\* Row i matches a prioritised prefix / a prioritised domain of the last dequeue.
PrefixHit(i) ==
    \E k \in 1..Len(call.p_prefixes) : Like(crawl_queue[i].url, call.p_prefixes[k] \o <<"%">>)
DomainHit(i) ==
    \E k \in 1..Len(call.p_domains) : Like(crawl_queue[i].domain, ReplaceStar(call.p_domains[k]))

\* Rows i and j are of the same tier for the last dequeue: both Bootstrap, or
\* neither and equal on prefix priority and on domain priority.
SameTier(i, j) ==
    IF crawl_queue[i].crawl_type = Bootstrap \/ crawl_queue[j].crawl_type = Bootstrap
    THEN crawl_queue[i].crawl_type = crawl_queue[j].crawl_type
    ELSE PrefixHit(i) = PrefixHit(j) /\ DomainHit(i) = DomainHit(j)

\* C18: the task a dequeue returns has the smallest updated_at among the
\* eligible Queued tasks of its tier; a task that mark_done(id, Failed) has
\* re-queued is therefore not returned while a task of its tier that was
\* waiting before is still Queued.
FifoOnLastTouch ==
    (call.op = "dequeue" /\ call.result # NoTask) =>
        \A i \in EligibleAtCall :
            SameTier(i, call.result) =>
                crawl_queue[call.result].updated_at <= crawl_queue[i].updated_at

\* C19: a dequeue step, whether it returns a task or None, leaves the table
\* with the rows it had, each with the status, num_retries and updated_at it
\* had.
DequeueReadOnly ==
    [][call'.op = "dequeue" =>
        /\ Len(crawl_queue') = Len(crawl_queue)
        /\ \A i \in Ids(crawl_queue) :
            /\ crawl_queue'[i].status = crawl_queue[i].status
            /\ crawl_queue'[i].num_retries = crawl_queue[i].num_retries
            /\ crawl_queue'[i].updated_at = crawl_queue[i].updated_at]_vars

\* C19 witness: dequeue has returned a task to a worker, and the row is Queued
\* with the updated_at of an earlier time.
DequeueReadOnlyWitness ==
    /\ call.op = "dequeue" /\ call.result # NoTask
    /\ \E w \in Workers : worker[w] = [pc |-> "received", task |-> call.result]
    /\ crawl_queue[call.result].status = Queued
    /\ crawl_queue[call.result].updated_at < now

\* C20: a step that changes the status or the num_retries of a row sets the
\* updated_at of the row to the time of the step.
MutationRefreshesUpdatedAt ==
    [][\A i \in Ids(crawl_queue) :
        (\/ crawl_queue'[i].status # crawl_queue[i].status
         \/ crawl_queue'[i].num_retries # crawl_queue[i].num_retries)
            => crawl_queue'[i].updated_at = now]_vars

\* C21: the num_retries of every row is at least 0 and at most MAX_RETRIES.
RetriesBounded ==
    \A i \in Ids(crawl_queue) :
        crawl_queue[i].num_retries >= 0 /\ crawl_queue[i].num_retries <= MAX_RETRIES

\* C22: the row a dequeue returns, by the Bootstrap lookup or by the
\* prioritised query, is Queued at the time of the call: never Processing,
\* Completed or Failed.
ReturnsOnlyQueued ==
    (call.op = "dequeue" /\ call.result # NoTask) =>
        crawl_queue[call.result].status = Queued

\* C22 witness: dequeue has returned a Queued task that is not Bootstrap while
\* the other row, a Bootstrap task, is Completed.
ReturnsOnlyQueuedWitness ==
    /\ call.op = "dequeue" /\ call.result # NoTask
    /\ crawl_queue[call.result].crawl_type # Bootstrap
    /\ crawl_queue[call.result].status = Queued
    /\ \E i \in Ids(crawl_queue) :
        crawl_queue[i].crawl_type = Bootstrap /\ crawl_queue[i].status = Completed

====
